---- MODULE Spec2Model ----
(***************************************************************************)
(* Model of src/app.py (zaiko-viewer): a Streamlit script that loads dated *)
(* Tempostar stock-movement CSV extracts, aggregates net units sold and    *)
(* current stock per product code (tab 1), derives a reorder quantity from *)
(* recent sales (tab 2) and joins an image lookup built from master CSVs.  *)
(*                                                                         *)
(* Text is modelled as a tuple of one-character strings, a date as the     *)
(* triple <<year, month, day>>, a CSV extract as its filename date token,  *)
(* its header (set of columns) and its rows in file order.                 *)
(***************************************************************************)
EXTENDS Integers, Sequences, FiniteSets, TLC

VARIABLES
    files,            \* the tempostar_stock_*.csv extracts, in sorted path order
    masters,          \* the CSV tables of the image-master folder, in glob order
    sku_filters,      \* st.session_state["sku_filters"]
    sku_applied,      \* st.session_state["sku_applied"]
    restock_filters,  \* st.session_state["restock_filters"]
    restock_applied,  \* st.session_state["restock_applied"]
    status,           \* how the last run of main() ended before the tabs
    view1,            \* what tab 1 showed in the last run
    view2,            \* what tab 2 showed in the last run
    img_master,       \* the dict load_image_master() returned, once called
    sales_recent,     \* tab 2's aggregated table the recommendation is computed on
    period_days,      \* tab 2's window length in days
    data_cache        \* st.cache_data of load_tempostar_data: paths -> frame

vars == <<files, masters, sku_filters, sku_applied, restock_filters,
          restock_applied, status, view1, view2, img_master, sales_recent,
          period_days, data_cache>>

----------------------------------------------------------------------------
(* Bounds of the explored inputs.                                          *)

MaxFiles == 2
MaxRows == 2

----------------------------------------------------------------------------
(* Text: str.strip(), case-insensitive substring search.                   *)

Whitespace == {" "}

RECURSIVE LStrip(_)
LStrip(s) ==
    IF s = <<>> THEN <<>>
    ELSE IF Head(s) \in Whitespace THEN LStrip(Tail(s)) ELSE s

RECURSIVE RStrip(_)
RStrip(s) ==
    IF s = <<>> THEN <<>>
    ELSE IF s[Len(s)] \in Whitespace THEN RStrip(SubSeq(s, 1, Len(s) - 1)) ELSE s

Strip(s) == RStrip(LStrip(s))

LowerChar(c) ==
    CASE c = "A" -> "a"
      [] c = "B" -> "b"
      [] c = "C" -> "c"
      [] c = "T" -> "t"
      [] OTHER -> c

LowerStr(s) == [i \in 1..Len(s) |-> LowerChar(s[i])]

\* Series.str.contains(keyword, case=False) for a keyword without regex
\* metacharacters: a case-insensitive substring test.
ContainsNoCase(s, keyword) ==
    \E i \in 1..(Len(s) - Len(keyword) + 1) :
        SubSeq(LowerStr(s), i, i + Len(keyword) - 1) = LowerStr(keyword)

----------------------------------------------------------------------------
(* Dates: datetime.date as <<year, month, day>>.                           *)

IsLeap(y) == (y % 4 = 0 /\ y % 100 # 0) \/ y % 400 = 0

DaysInMonth(y, m) ==
    IF m = 2 THEN (IF IsLeap(y) THEN 29 ELSE 28)
    ELSE IF m \in {4, 6, 9, 11} THEN 30 ELSE 31

\* days of the year before the first day of month m
DaysBeforeMonth(y, m) ==
    <<0, 31, 59, 90, 120, 151, 181, 212, 243, 273, 304, 334>>[m]
        + (IF m > 2 /\ IsLeap(y) THEN 1 ELSE 0)

\* days from 2024-01-01 (the origin of Ordinal) to the first day of year y,
\* for the years 2024..2099 (every fourth one a leap year)
DaysBeforeYear(y) == 365 * (y - 2024) + ((y - 2024 + 3) \div 4)

\* date.toordinal(), counted from 2024-01-01
Ordinal(d) == DaysBeforeYear(d[1]) + DaysBeforeMonth(d[1], d[2]) + d[3]

ValidDate(d) ==
    /\ d[1] >= 2024
    /\ d[2] \in 1..12
    /\ d[3] \in 1..DaysInMonth(d[1], d[2])

DateLE(a, b) == Ordinal(a) <= Ordinal(b)

\* (a - b).days
DaysBetween(a, b) == Ordinal(a) - Ordinal(b)

RECURSIVE FromOrdinalIn(_, _)
FromOrdinalIn(y, n) ==
    LET len == IF IsLeap(y) THEN 366 ELSE 365
        m == CHOOSE k \in 1..12 :
                 /\ DaysBeforeMonth(y, k) < n
                 /\ n <= DaysBeforeMonth(y, k) + DaysInMonth(y, k)
    IN IF n > len THEN FromOrdinalIn(y + 1, n - len)
       ELSE <<y, m, n - DaysBeforeMonth(y, m)>>

\* d - timedelta(days=n)
MinusDays(d, n) == FromOrdinalIn(2024, Ordinal(d) - n)

\* (pd.Timestamp(d) - pd.DateOffset(months=k)).date(): the month moves back
\* k months and the day is clipped to the last day of that month.
MinusMonths(d, k) ==
    LET idx == d[1] * 12 + (d[2] - 1) - k
        y == idx \div 12
        m == (idx % 12) + 1
        last == DaysInMonth(y, m)
    IN <<y, m, IF d[3] > last THEN last ELSE d[3]>>

----------------------------------------------------------------------------
(* The CSV extracts.  Columns are named by their role:                     *)
(*   code 商品コード, base 商品基本コード, name 商品名, attr1 属性1名,     *)
(*   attr2 属性2名, qty 増減値, stock 変動後, reason 更新理由.             *)

AllCols == {"code", "base", "name", "attr1", "attr2", "qty", "stock", "reason"}

\* the value of 更新理由 that marks a customer order: "受注取込"
SalesReason == "order-intake"
OtherReason == "restock"

\* a cell that pandas holds as NaN: text cells, and the 更新理由 cell
NaN == "NaN"
NaNText == <<NaN>>

\* str(NaN), Series.astype(str) on a NaN cell
AsStr(cell) == IF cell = NaNText THEN <<"n", "a", "n">> ELSE cell

\* pd.to_numeric(errors="coerce").fillna(0).astype(int) on a cell of a column
\* the extract has (an integer) or lacks (NaN after pd.concat)
CoerceInt(present, v) == IF present THEN v ELSE 0

----------------------------------------------------------------------------
(* main(): the list of dated extracts.                                     *)

\* re.compile(r"tempostar_stock_(\d{8})").search(name): the 8-digit token,
\* <<>> when the name holds none
HasToken(f) == f.tok # <<>>

\* datetime.strptime(token, "%Y%m%d") raises ValueError on a token that is no
\* calendar date
StrptimeFails(f) == HasToken(f) /\ ~ValidDate(f.tok)

RECURSIVE FileInfosFrom(_, _)
FileInfosFrom(fs, i) ==
    IF i > Len(fs) THEN <<>>
    ELSE IF HasToken(fs[i])
         THEN <<[date |-> fs[i].tok, path |-> i]>> \o FileInfosFrom(fs, i + 1)
         ELSE FileInfosFrom(fs, i + 1)

FileInfos(fs) == FileInfosFrom(fs, 1)

\* how main() gets to the tabs: "no_csv" and "no_dated_csv" are its two
\* st.error returns, "ValueError" the exception strptime raises
PreStatus(fs) ==
    IF fs = <<>> THEN "no_csv"
    ELSE IF \E i \in 1..Len(fs) : StrptimeFails(fs[i]) THEN "ValueError"
    ELSE IF FileInfos(fs) = <<>> THEN "no_dated_csv"
    ELSE "ok"

InfoDates(fs) == {FileInfos(fs)[i].date : i \in 1..Len(FileInfos(fs))}

MinDate(fs) == CHOOSE d \in InfoDates(fs) : \A e \in InfoDates(fs) : DateLE(d, e)
MaxDate(fs) == CHOOSE d \in InfoDates(fs) : \A e \in InfoDates(fs) : DateLE(e, d)

\* [fi for fi in file_infos if start <= fi["date"] <= end], as paths
RECURSIVE WindowPathsFrom(_, _, _, _)
WindowPathsFrom(infos, i, start, end) ==
    IF i > Len(infos) THEN <<>>
    ELSE IF DateLE(start, infos[i].date) /\ DateLE(infos[i].date, end)
         THEN <<infos[i].path>> \o WindowPathsFrom(infos, i + 1, start, end)
         ELSE WindowPathsFrom(infos, i + 1, start, end)

WindowPaths(fs, start, end) == WindowPathsFrom(FileInfos(fs), 1, start, end)

----------------------------------------------------------------------------
(* load_tempostar_data                                                     *)

\* the rows of extract p as rows of the concatenated frame, whose columns are
\* allCols: a column the extract lacks is NaN, and the two numeric columns are
\* coerced to integers
LoadedRow(fs, p, k) ==
    LET f == fs[p]
        r == f.rows[k]
    IN [code |-> IF "code" \in f.cols THEN r.code ELSE NaNText,
        base |-> IF "base" \in f.cols THEN r.base ELSE NaNText,
        name |-> IF "name" \in f.cols THEN r.name ELSE NaNText,
        qty |-> CoerceInt("qty" \in f.cols, r.qty),
        stock |-> CoerceInt("stock" \in f.cols, r.stock),
        reason |-> IF "reason" \in f.cols THEN r.reason ELSE NaN,
        src |-> p]

LoadedRows(fs, p) == [k \in 1..Len(fs[p].rows) |-> LoadedRow(fs, p, k)]

RECURSIVE ConcatFrom(_, _, _)
ConcatFrom(fs, paths, i) ==
    IF i > Len(paths) THEN <<>>
    ELSE LoadedRows(fs, paths[i]) \o ConcatFrom(fs, paths, i + 1)

load_tempostar_data(fs, paths) ==
    [cols |-> UNION {fs[paths[i]].cols : i \in 1..Len(paths)},
     rows |-> ConcatFrom(fs, paths, 1)]

PathSet(paths) == {paths[i] : i \in 1..Len(paths)}

\* the sorted path list that holds the paths of a set
PathList(fs, ps) == SelectSeq([i \in 1..Len(fs) |-> i], LAMBDA i : i \in ps)

\* load_tempostar_data under @st.cache_data: the cache is keyed by the
\* argument, the list of paths, and a call with a cached key returns the
\* frame stored for it
cached_load(fs, paths) ==
    IF PathSet(paths) \in DOMAIN data_cache THEN data_cache[PathSet(paths)]
    ELSE load_tempostar_data(fs, paths)

\* the cache after the calls of one run with these path sets
CacheAfter(fs, keys) ==
    [k \in (DOMAIN data_cache) \cup (keys \ {{}}) |->
        IF k \in DOMAIN data_cache THEN data_cache[k]
        ELSE load_tempostar_data(fs, PathList(fs, k))]

----------------------------------------------------------------------------
(* load_image_master and to_img                                            *)

\* the two columns load_image_master needs: 商品管理番号（商品URL） and 商品画像パス1
MasterCols == {"key", "path"}

\* a dict that keeps the first value of a key
DictPutKeepFirst(d, k, v) ==
    IF k \in DOMAIN d THEN d ELSE [x \in (DOMAIN d) \cup {k} |-> IF x = k THEN v ELSE d[x]]

DictPut(d, k, v) == [x \in (DOMAIN d) \cup {k} |-> IF x = k THEN v ELSE d[x]]

\* dict(zip(keys, paths)) over the stripped cells: a later pair replaces an
\* earlier one with the same key
RECURSIVE DictZip(_, _, _)
DictZip(rows, i, d) ==
    IF i > Len(rows) THEN d
    ELSE DictZip(rows, i + 1,
                 DictPut(d, Strip(AsStr(rows[i].key)), Strip(AsStr(rows[i].path))))

RECURSIVE MergeMasters(_, _)
MergeMasters(ms, i) ==
    IF i > Len(ms) THEN <<>>
    ELSE IF MasterCols \subseteq ms[i].cols
         THEN ms[i].rows \o MergeMasters(ms, i + 1)
         ELSE MergeMasters(ms, i + 1)

UsableMasters(ms) == {i \in 1..Len(ms) : MasterCols \subseteq ms[i].cols}

load_image_master(ms) ==
    IF ms = <<>> THEN <<>>
    ELSE IF UsableMasters(ms) = {} THEN <<>>
    ELSE DictZip(MergeMasters(ms, 1), 1, <<>>)

\* the <img> tag to_img builds around base_url + rel
ImgTag(rel) == <<"<img>">> \o rel

to_img(img, code) ==
    LET key == Strip(AsStr(code))
        rel == IF key \in DOMAIN img THEN img[key] ELSE <<>>
    IN IF rel = <<>> THEN <<>> ELSE ImgTag(rel)

----------------------------------------------------------------------------
(* The aggregation both tabs run on a loaded frame.                        *)

KeywordCols == {"code", "base", "name"}

\* with a keyword and none of the three columns, cond stays False and
\* df[False] raises KeyError
KeywordRaises(df, keyword) == keyword # <<>> /\ KeywordCols \cap df.cols = {}

\* required = {"商品コード", "商品基本コード", "増減値"}
RequiredCols == {"code", "base", "qty"}

\* the columns agg_sales names: .agg() raises KeyError when one is missing
AggSalesCols == {"base", "name", "attr1", "attr2", "qty"}

KeywordMatch(df, r, keyword) ==
    \E c \in KeywordCols \cap df.cols : ContainsNoCase(AsStr(r[c]), keyword)

\* "if keyword:" ... df = df[cond]
KeywordFilter(df, keyword) ==
    IF keyword = <<>> THEN df
    ELSE [df EXCEPT !.rows = SelectSeq(df.rows, LAMBDA r : KeywordMatch(df, r, keyword))]

\* a sales filter that selects every row
IsSalesRowAny(df, r) == TRUE

\* the rows that count as sales: 更新理由 == "受注取込" when the frame has the
\* column, every row otherwise
IsSalesRow(df, r) == IF "reason" \in df.cols THEN r.reason = SalesReason ELSE TRUE

SalesRows(df) == SelectSeq(df.rows, LAMBDA r : IsSalesRow(df, r))

\* every product code of the model in sort order: groupby sorts its keys
CodeOrder == << <<"A", "1">>, <<"B", "1">> >>

GroupKeys(rows) ==
    SelectSeq(CodeOrder, LAMBDA c : \E i \in 1..Len(rows) : rows[i].code = c)

RowsOfCode(rows, c) == SelectSeq(rows, LAMBDA r : r.code = c)

RECURSIVE SumQty(_)
SumQty(rows) == IF rows = <<>> THEN 0 ELSE Head(rows).qty + SumQty(Tail(rows))

\* GroupBy "last": the last cell of the group that is not NaN
RECURSIVE LastValid(_, _)
LastValid(rows, col) ==
    IF rows = <<>> THEN NaNText
    ELSE IF rows[Len(rows)][col] # NaNText THEN rows[Len(rows)][col]
    ELSE LastValid(SubSeq(rows, 1, Len(rows) - 1), col)

\* 売上個数合計 without the negation
NetSoldUnnegated(rows) == SumQty(rows)

\* 売上個数合計 = -増減値合計
NetSold(rows) == 0 - SumQty(rows)

\* groupby("商品コード", dropna=False).agg(agg_sales).reset_index()
GroupSales(rows) ==
    LET keys == GroupKeys(rows)
    IN [i \in 1..Len(keys) |->
          LET g == RowsOfCode(rows, keys[i])
          IN [code |-> keys[i],
              base |-> LastValid(g, "base"),
              name |-> LastValid(g, "name"),
              sold |-> NetSold(g)]]

\* the positive-sales filter with >= for >
KeepSoldOrZero(r) == r.sold >= 0

\* sales_grouped[sales_grouped["売上個数合計"] > 0]
KeepSold(r) == r.sold > 0

PositiveSales(t) == SelectSeq(t, KeepSold)

\* groupby("商品コード")["変動後"].last(): the stock of the product's last row
StockLast(rows, c) == RowsOfCode(rows, c)[Len(RowsOfCode(rows, c))].stock

\* the 現在庫 a product gets from the left merge with stock_group, NaN -> 0
CurrentStock(df, c) ==
    IF "stock" \in df.cols
    THEN (IF RowsOfCode(df.rows, c) = <<>> THEN 0 ELSE StockLast(df.rows, c))
    ELSE 0

WithStock(t, df) ==
    [i \in 1..Len(t) |->
        [code |-> t[i].code, base |-> t[i].base, name |-> t[i].name,
         sold |-> t[i].sold, stock |-> CurrentStock(df, t[i].code)]]

\* "if min_total_sales > 0:" keep 売上個数合計 >= min_total_sales
MinSalesFilter(t, min) ==
    IF min > 0 THEN SelectSeq(t, LAMBDA r : r.sold >= min) ELSE t

\* sort_values(col, ascending=False); rows of equal value are taken in the
\* order they had, as the sort leaves them on frames this small
RECURSIVE InsertDesc(_, _, _)
InsertDesc(sorted, r, col) ==
    IF sorted = <<>> THEN <<r>>
    ELSE IF Head(sorted)[col] >= r[col]
         THEN <<Head(sorted)>> \o InsertDesc(Tail(sorted), r, col)
         ELSE <<r>> \o sorted

RECURSIVE SortDescFrom(_, _, _, _)
SortDescFrom(t, i, acc, col) ==
    IF i > Len(t) THEN acc
    ELSE SortDescFrom(t, i + 1, InsertDesc(acc, t[i], col), col)

SortDesc(t, col) == SortDescFrom(t, 1, <<>>, col)

WithImg(t, img) ==
    [i \in 1..Len(t) |->
        [code |-> t[i].code, base |-> t[i].base, name |-> t[i].name,
         sold |-> t[i].sold, stock |-> t[i].stock,
         img |-> to_img(img, t[i].base)]]

----------------------------------------------------------------------------
(* Tab 1: the sales report.                                                *)

Tab1Info == [status |-> "info", rows |-> <<>>, loaded |-> {}]

\* the right column of tab 1 for the stored filters f
Tab1(fs, f, img) ==
    LET main_paths == WindowPaths(fs, f.start_date, f.end_date)
        df_main == KeywordFilter(cached_load(fs, main_paths), f.keyword)
        sales_grouped == PositiveSales(GroupSales(SalesRows(df_main)))
        merged == WithStock(sales_grouped, df_main)
        ranked == SortDesc(MinSalesFilter(merged, f.min_total_sales), "sold")
        cols == df_main.cols
    IN IF main_paths = <<>>
       THEN [status |-> "no_csv_in_range", rows |-> <<>>, loaded |-> {}]
       ELSE IF KeywordRaises([cols |-> cols], f.keyword)
       THEN [status |-> "KeyError", rows |-> <<>>, loaded |-> PathSet(main_paths)]
       ELSE IF ~(RequiredCols \subseteq cols)
       THEN [status |-> "schema_error", rows |-> <<>>, loaded |-> PathSet(main_paths)]
       ELSE IF ~(AggSalesCols \subseteq cols)
       THEN [status |-> "KeyError", rows |-> <<>>, loaded |-> PathSet(main_paths)]
       ELSE [status |-> "ok", rows |-> WithImg(ranked, img),
             loaded |-> PathSet(main_paths)]

----------------------------------------------------------------------------
(* Tab 2: the reorder recommendation (発注推奨数).                         *)

\* How the double-precision value of (sold / days) * target - stock falls when
\* the exact value lies halfway between two integers: on the half itself
\* ("even": Series.round() rounds half to even), just below it or just above.
FloatTies == {"even", "down", "up"}

\* the rounding as a ceiling
CeilGap(num, den, tie) == IF num <= 0 THEN 0 ELSE 0 - ((0 - num) \div den)

\* diff.where(diff > 0, 0).round().astype(int) of the value num / den, den > 0
RoundedGap(num, den, tie) ==
    LET fl == num \div den
        twice == 2 * (num % den)
    IN IF num <= 0 THEN 0
       ELSE IF twice < den THEN fl
       ELSE IF twice > den THEN fl + 1
       ELSE IF tie = "down" THEN fl
       ELSE IF tie = "up" THEN fl + 1
       ELSE IF fl % 2 = 0 THEN fl ELSE fl + 1

\* the gap with its sign reversed
GapNumReversed(sold, stock, days, target) == stock * days - sold * target

\* 目標在庫 - 現在庫 as the fraction GapNum / days, where
\* 目標在庫 = (売上個数合計 / period_days) * target_days
GapNum(sold, stock, days, target) == sold * target - stock * days

\* 発注推奨数 of one product
OrderQty(sold, stock, days, target, tie) ==
    RoundedGap(GapNum(sold, stock, days, target), days, tie)

WithOrderQty(t, days, target, tie) ==
    [i \in 1..Len(t) |->
        [code |-> t[i].code, base |-> t[i].base, name |-> t[i].name,
         sold |-> t[i].sold, stock |-> t[i].stock, img |-> t[i].img,
         qty |-> OrderQty(t[i].sold, t[i].stock, days, target, tie)]]

\* the rows-to-order filter with >= for >
NeedsOrderOrZero(r) == r.qty >= 0

\* sales_recent[sales_recent["発注推奨数"] > 0]
NeedsOrder(r) == r.qty > 0

\* restock_view: the rows to order, largest quantity first
RestockView(t, days, target, tie) ==
    SortDesc(SelectSeq(WithOrderQty(t, days, target, tie), NeedsOrder), "qty")

\* sales_recent[sales_recent["現在庫"] <= max_current_stock]
MaxStockFilter(t, max) == SelectSeq(t, LAMBDA r : r.stock <= max)

\* start_r: max_date minus restock_months months, not before min_date
RestockStart(fs, months) ==
    LET back == MinusMonths(MaxDate(fs), months)
    IN IF DateLE(MinDate(fs), back) THEN back ELSE MinDate(fs)

\* period_days = max((end_r - start_r).days + 1, 1)
PeriodDays(start, end) ==
    IF DaysBetween(end, start) + 1 >= 1 THEN DaysBetween(end, start) + 1 ELSE 1

\* whether some product's exact gap lies halfway between two integers, where
\* the double-precision value decides the rounding
HasHalfway(t, days, target) ==
    \E i \in 1..Len(t) :
        /\ GapNum(t[i].sold, t[i].stock, days, target) > 0
        /\ 2 * (GapNum(t[i].sold, t[i].stock, days, target) % days) = days

Tab2Info == [status |-> "info", rows |-> <<>>, loaded |-> {}]

Tab2Idle == [status |-> "info", table |-> <<>>, days |-> 0, loaded |-> {}]

\* tab 2 of a run that an exception in tab 1 ended
Tab2NotRun == [status |-> "not_run", table |-> <<>>, days |-> 0, loaded |-> {}]

\* the right column of tab 2 for the stored filters f, up to the table the
\* recommendation is computed on (sales_recent) and the window length
Tab2Table(fs, f, img) ==
    LET end_r == MaxDate(fs)
        start_r == RestockStart(fs, f.restock_months)
        restock_paths == WindowPaths(fs, start_r, end_r)
        df_restock == KeywordFilter(cached_load(fs, restock_paths), f.keyword)
        df_sales_recent == SalesRows(df_restock)
        grouped == MinSalesFilter(PositiveSales(GroupSales(df_sales_recent)),
                                  f.min_total_sales)
        merged == MaxStockFilter(WithStock(grouped, df_restock), f.max_current_stock)
        cols == df_restock.cols
    IN IF restock_paths = <<>>
       THEN [status |-> "no_csv_in_range", table |-> <<>>, days |-> 0, loaded |-> {}]
       ELSE IF KeywordRaises([cols |-> cols], f.keyword)
       THEN [status |-> "KeyError", table |-> <<>>, days |-> 0,
             loaded |-> PathSet(restock_paths)]
       ELSE IF df_sales_recent = <<>>
       THEN [status |-> "no_sales", table |-> <<>>, days |-> 0,
             loaded |-> PathSet(restock_paths)]
       ELSE IF "code" \notin cols \/ ~(AggSalesCols \subseteq cols)
       THEN [status |-> "KeyError", table |-> <<>>, days |-> 0,
             loaded |-> PathSet(restock_paths)]
       ELSE [status |-> "ok", table |-> WithImg(merged, img),
             days |-> PeriodDays(start_r, end_r), loaded |-> PathSet(restock_paths)]

\* what tab 2 shows: the rows to order when the table was computed
Tab2View(t2, target, tie) ==
    [status |-> t2.status,
     rows |-> IF t2.status = "ok" THEN RestockView(t2.table, t2.days, target, tie)
              ELSE <<>>,
     loaded |-> t2.loaded]

----------------------------------------------------------------------------
(* main(): the session state and one run of the script.                    *)

\* default_start = max_date - timedelta(days=30), not before min_date
DefaultStart(fs) ==
    LET back == MinusDays(MaxDate(fs), 30)
    IN IF DateLE(MinDate(fs), back) THEN back ELSE MinDate(fs)

DefaultSkuFilters(fs) ==
    [start_date |-> DefaultStart(fs), end_date |-> MaxDate(fs),
     keyword |-> <<>>, min_total_sales |-> 0]

DefaultRestockFilters ==
    [keyword |-> <<>>, min_total_sales |-> 0, restock_months |-> 1,
     target_days |-> 30, max_current_stock |-> 999999]

\* session_state before main() has stored anything
Unset == [unset |-> TRUE]

\* load_image_master() under st.cache_data: computed on the first call
ImgNow == IF img_master = <<>> THEN load_image_master(masters) ELSE img_master[1]

\* The tabs of one run, from the session state as the run left it.
RunTabs(sf, sa, rf, ra) ==
    \E t1 \in {IF sa THEN Tab1(files, sf, ImgNow) ELSE Tab1Info} :
     \E t2 \in {IF t1.status = "KeyError" THEN Tab2NotRun
                ELSE IF ra THEN Tab2Table(files, rf, ImgNow) ELSE Tab2Idle} :
      \E tie \in IF t2.status = "ok" /\ HasHalfway(t2.table, t2.days, rf.target_days)
                 THEN FloatTies ELSE {"even"} :
        /\ view1' = t1
        /\ view2' = Tab2View(t2, rf.target_days, tie)
        /\ sales_recent' = t2.table
        /\ period_days' = t2.days
        /\ data_cache' = CacheAfter(files, {t1.loaded, t2.loaded})
        /\ img_master' = IF t1.status = "ok" \/ t2.status = "ok"
                         THEN <<ImgNow>> ELSE img_master

\* tab 1's submission without the exchange of start_date and end_date
SubmitSkuUnswapped(start, end, keyword, min) ==
    /\ status = "ok"
    /\ sku_filters' = [start_date |-> start, end_date |-> end,
                       keyword |-> keyword, min_total_sales |-> min]
    /\ sku_applied' = TRUE
    /\ RunTabs(sku_filters', TRUE, restock_filters, restock_applied)
    /\ UNCHANGED <<files, masters, restock_filters, restock_applied, status>>

\* "この条件で表示" of tab 1 pressed with these form values
SubmitSku(start, end, keyword, min) ==
    /\ status = "ok"
    /\ sku_filters' = [start_date |-> IF DateLE(start, end) THEN start ELSE end,
                       end_date |-> IF DateLE(start, end) THEN end ELSE start,
                       keyword |-> keyword, min_total_sales |-> min]
    /\ sku_applied' = TRUE
    /\ RunTabs(sku_filters', TRUE, restock_filters, restock_applied)
    /\ UNCHANGED <<files, masters, restock_filters, restock_applied, status>>

\* "この条件で表示" of tab 2 pressed with these form values
SubmitRestock(keyword, min, months, target, maxstock) ==
    /\ status = "ok"
    /\ restock_filters' = [keyword |-> keyword, min_total_sales |-> min,
                           restock_months |-> months, target_days |-> target,
                           max_current_stock |-> maxstock]
    /\ restock_applied' = TRUE
    /\ RunTabs(sku_filters, sku_applied, restock_filters', TRUE)
    /\ UNCHANGED <<files, masters, sku_filters, sku_applied, status>>

----------------------------------------------------------------------------
(* The explored inputs.                                                    *)

CodeA == <<"A", "1">>
CodeB == <<"B", "1">>
BaseOf(c) == <<c[1]>>

D1 == <<2025, 7, 10>>
D2 == <<2025, 8, 22>>
D3 == <<2025, 8, 31>>
NoToken == <<>>
BadToken == <<2025, 13, 1>>

\* the extract at position i of the sorted paths is named for this date
DateAt(i) == IF i = 1 THEN D1 ELSE IF i = 2 THEN D3 ELSE <<2025, 9, 7 + i>>

\* the product name the extract at position i carries: the products were
\* renamed after the first extract
NameAt(i) == IF i = 1 THEN <<"c", "a", "p">> ELSE <<"t", "e", "e">>

\* 変動後 of row k of extract i: every row of a file set carries its own value
StockAt(i, k) == MaxRows * (i - 1) + k

FullCols == AllCols
NoReasonCols == AllCols \ {"reason"}

SeqsUpTo(S, n) == UNION {[1..k -> S] : k \in 1..n}

\* what a row records: an order shipped (-2), an order returned (+1), a
\* restock (+1); without the 更新理由 column only the quantity is left
Movements(cols) ==
    IF "reason" \in cols
    THEN {[code |-> c, qty |-> m[1], reason |-> m[2]] :
             c \in {CodeA, CodeB},
             m \in {<<-2, SalesReason>>, <<1, SalesReason>>, <<1, OtherReason>>}}
    ELSE {[code |-> c, qty |-> q, reason |-> NaN] : c \in {CodeA, CodeB}, q \in {-2, 1}}

MkExtract(i, tok, cols, ms) ==
    [tok |-> tok, cols |-> cols,
     rows |-> [k \in 1..Len(ms) |->
                 [code |-> ms[k].code, base |-> BaseOf(ms[k].code),
                  name |-> NameAt(i), qty |-> ms[k].qty,
                  stock |-> StockAt(i, k), reason |-> ms[k].reason]]]

ExtractsAt(i, toks, colsets) ==
    UNION {{MkExtract(i, t, cs, ms) : t \in toks, ms \in SeqsUpTo(Movements(cs), MaxRows)} :
              cs \in colsets}

\* the file sets of exactly n dated extracts, with and without 更新理由
RECURSIVE DatedFileSets(_)
DatedFileSets(n) ==
    IF n = 0 THEN {<<>>}
    ELSE {Append(fs, e) : fs \in DatedFileSets(n - 1),
                          e \in ExtractsAt(n, {DateAt(n)}, {FullCols, NoReasonCols})}

\* the file sets whose names hold a date, an impossible date or none, each
\* extract with one order of each product
RECURSIVE NamedFileSets(_)
NamedFileSets(n) ==
    IF n = 0 THEN {<<>>}
    ELSE {Append(fs, MkExtract(n, t, FullCols,
                               <<[code |-> CodeA, qty |-> -2, reason |-> SalesReason],
                                 [code |-> CodeB, qty |-> -2, reason |-> SalesReason]>>)) :
             fs \in NamedFileSets(n - 1), t \in {DateAt(n), NoToken, BadToken}}

\* one image master: product base "A" has an image, "B" has none
OneMaster == << [cols |-> MasterCols,
                 rows |-> << [key |-> <<"A">>, path |-> <<"/", "a">>] >>] >>

Keywords == {<<>>, <<"a">>}
MinSalesChoices == {0, 2}
MaxMonths == 2
TargetChoices == {30, 60}
MaxStockChoices == {1, 999999}

DateInputs(fs) ==
    {d \in {D1, D2, D3} \cup InfoDates(fs) :
        DateLE(MinDate(fs), d) /\ DateLE(d, MaxDate(fs))}

----------------------------------------------------------------------------
(* The application: every form submission, from every session state.       *)

\* the state the first run of main() leaves
Fresh ==
    /\ status = PreStatus(files)
    /\ sku_filters = IF status = "ok" THEN DefaultSkuFilters(files) ELSE Unset
    /\ sku_applied = FALSE
    /\ restock_filters = IF status = "ok" THEN DefaultRestockFilters ELSE Unset
    /\ restock_applied = FALSE
    /\ view1 = Tab1Info
    /\ view2 = Tab2Info
    /\ img_master = <<>>
    /\ sales_recent = <<>>
    /\ period_days = 0
    /\ data_cache = <<>>

Init ==
    /\ files \in UNION {NamedFileSets(n) : n \in 0..MaxFiles}
    /\ masters = OneMaster
    /\ Fresh

SkuForm ==
    /\ status = "ok"
    /\ \E start \in DateInputs(files), end \in DateInputs(files),
          keyword \in Keywords, min \in MinSalesChoices :
           SubmitSku(start, end, keyword, min)

RestockForm ==
    /\ status = "ok"
    /\ \E keyword \in Keywords, min \in MinSalesChoices, months \in 1..MaxMonths,
          target \in TargetChoices, maxstock \in MaxStockChoices :
           SubmitRestock(keyword, min, months, target, maxstock)

Next == SkuForm \/ RestockForm

Spec == Init /\ [][Next]_vars

----------------------------------------------------------------------------
(* The aggregation as a function of its inputs: the first submission of    *)
(* either form, over every file set of dated extracts.                     *)

InitAgg ==
    /\ files \in UNION {DatedFileSets(n) : n \in 1..MaxFiles}
    /\ masters = OneMaster
    /\ Fresh

FirstSku == ~sku_applied /\ ~restock_applied /\ SkuForm

FirstRestock == ~sku_applied /\ ~restock_applied /\ RestockForm

NextAgg == FirstSku \/ FirstRestock

SpecAgg == InitAgg /\ [][NextAgg]_vars

----------------------------------------------------------------------------
(* The recommendation as a function of the aggregated table, the window    *)
(* length and target_days.                                                 *)

MaxSold == 3
MaxStock == 2
MaxPeriod == 3
MaxTarget == 3

SoldChoices == (1..MaxSold) \cup {20}
StockChoices == (0..MaxStock) \cup {10}
PeriodChoices == (1..MaxPeriod) \cup {10}
TargetDayChoices == (1..MaxTarget) \cup {30}

\* aggregated tables of one or two products, as tab 2 builds them
AggTables ==
    UNION {{[i \in 1..n |->
               [code |-> CodeOrder[i], base |-> BaseOf(CodeOrder[i]),
                name |-> NameAt(1), sold |-> so[i], stock |-> st[i], img |-> <<>>]] :
              so \in [1..n -> SoldChoices], st \in [1..n -> StockChoices]} :
           n \in 1..Len(CodeOrder)}

InitReorder ==
    /\ files = <<>>
    /\ masters = <<>>
    /\ status = "ok"
    /\ sku_filters = Unset
    /\ sku_applied = FALSE
    /\ restock_filters = DefaultRestockFilters
    /\ restock_applied = TRUE
    /\ view1 = Tab1Info
    /\ view2 = Tab2Info
    /\ img_master = <<>>
    /\ sales_recent \in AggTables
    /\ period_days \in PeriodChoices
    /\ data_cache = <<>>

\* 発注推奨数 computed on the table for a target_days
Recommend(target) ==
    /\ \E tie \in IF HasHalfway(sales_recent, period_days, target)
                  THEN FloatTies ELSE {"even"} :
          view2' = [status |-> "ok",
                    rows |-> RestockView(sales_recent, period_days, target, tie),
                    loaded |-> {}]
    /\ restock_filters' = [restock_filters EXCEPT !.target_days = target]
    /\ UNCHANGED <<files, masters, sku_filters, sku_applied, restock_applied,
                   status, view1, img_master, sales_recent, period_days,
                   data_cache>>

NextReorder == \E target \in TargetDayChoices : Recommend(target)

SpecReorder == InitReorder /\ [][NextReorder]_vars

----------------------------------------------------------------------------
(* The image lookup as a function of the master tables, seen through the   *)
(* reports of one extract.                                                 *)

MaxTables == 2
MaxMasterRows == 2

MasterPairs ==
    {[key |-> k, path |-> p] :
        k \in {<<"A">>, <<" ", "A">>, <<"B">>}, p \in {<<"p">>, <<"q", " ">>}}

\* a table with both columns, or one without the image-path column
MasterTables ==
    {[cols |-> MasterCols, rows |-> rs] : rs \in {<<>>} \cup SeqsUpTo(MasterPairs, MaxMasterRows)}
    \cup {[cols |-> {"key"}, rows |-> << [key |-> <<"A">>, path |-> NaNText] >>]}

\* one extract: product A1 of base "A ", product B1 of base "B"
ImageFiles ==
    << [tok |-> D1, cols |-> FullCols,
        rows |-> << [code |-> CodeA, base |-> <<"A", " ">>, name |-> NameAt(1),
                     qty |-> -2, stock |-> 1, reason |-> SalesReason],
                    [code |-> CodeB, base |-> <<"B">>, name |-> NameAt(1),
                     qty |-> -2, stock |-> 2, reason |-> SalesReason] >>] >>

InitImage ==
    /\ files = ImageFiles
    /\ masters \in {<<>>} \cup SeqsUpTo(MasterTables, MaxTables)
    /\ Fresh

SpecImage == InitImage /\ [][NextAgg]_vars

----------------------------------------------------------------------------
(* The reports over extracts that lack columns: the first submission of    *)
(* either form, over file sets whose extracts all have the same columns.   *)

\* the column sets: every column, one column missing, or the three columns
\* the keyword is searched in missing
SchemaColSets ==
    {AllCols} \cup {AllCols \ {c} : c \in AllCols} \cup {AllCols \ KeywordCols}

\* n extracts of these columns, each with one order of each product
SchemaFiles(cols, n) ==
    [i \in 1..n |->
        MkExtract(i, DateAt(i), cols,
                  <<[code |-> CodeA, qty |-> -2, reason |-> SalesReason],
                    [code |-> CodeB, qty |-> -2, reason |-> SalesReason]>>)]

InitSchema ==
    /\ files \in {SchemaFiles(cols, n) : cols \in SchemaColSets, n \in 1..MaxFiles}
    /\ masters = OneMaster
    /\ Fresh

SpecSchema == InitSchema /\ [][NextAgg]_vars

----------------------------------------------------------------------------
(* The memoized loaders while the files change between runs.               *)

\* the two contents an extract is seen with: an order of each product, or
\* two orders of product A1
ExtractVersions(i) ==
    {MkExtract(i, DateAt(i), FullCols,
               <<[code |-> CodeA, qty |-> -2, reason |-> SalesReason],
                 [code |-> c, qty |-> -2, reason |-> SalesReason]>>) :
        c \in {CodeA, CodeB}}

\* the image-master folder as it is seen: empty, one table, or that table and
\* a second one that moves the image of "A"
MasterVersions ==
    {<<>>, OneMaster,
     OneMaster \o << [cols |-> MasterCols,
                      rows |-> << [key |-> <<"A">>, path |-> <<"/", "b">>] >>] >>}

InitCache ==
    /\ files \in {[i \in 1..n |->
                     MkExtract(i, DateAt(i), FullCols,
                               <<[code |-> CodeA, qty |-> -2, reason |-> SalesReason],
                                 [code |-> CodeB, qty |-> -2, reason |-> SalesReason]>>)] :
                  n \in 1..MaxFiles}
    /\ masters = OneMaster
    /\ Fresh

\* an extract is overwritten with other contents, under the same name
ModifyExtract ==
    /\ \E i \in 1..Len(files) :
          \E e \in ExtractVersions(i) \ {files[i]} : files' = [files EXCEPT ![i] = e]
    /\ UNCHANGED <<masters, sku_filters, sku_applied, restock_filters, restock_applied,
                   status, view1, view2, img_master, sales_recent, period_days,
                   data_cache>>

\* an image-master table is added, removed or replaced
ChangeMasters ==
    /\ masters' \in MasterVersions \ {masters}
    /\ UNCHANGED <<files, sku_filters, sku_applied, restock_filters, restock_applied,
                   status, view1, view2, img_master, sales_recent, period_days,
                   data_cache>>

\* the forms submitted with no keyword and no threshold, tab 1 for a window
\* that ends on the last date
PlainSkuForm ==
    \E start \in DateInputs(files) : SubmitSku(start, MaxDate(files), <<>>, 0)

PlainRestockForm ==
    \E months \in 1..MaxMonths : SubmitRestock(<<>>, 0, months, 30, 999999)

NextCache == PlainSkuForm \/ PlainRestockForm \/ ModifyExtract \/ ChangeMasters

SpecCache == InitCache /\ [][NextCache]_vars

----------------------------------------------------------------------------
(* The file names: what glob("tempostar_stock_*.csv") finds, how sorted()  *)
(* orders it and what the regular expression reads in it.  A name is the   *)
(* text between the leading "tempostar_stock_" and the end, as a sequence  *)
(* of pieces: an 8-digit date, or a text that holds no digit.              *)

DatePiece(d) == [text |-> "8 digits", date |-> d]
TextPiece(t) == [text |-> t, date |-> <<>>]

Csv == TextPiece(".csv")
Prefix == TextPiece("tempostar_stock_")

\* where a piece falls in the order of strings, by its first character:
\* "." < digits < "_" < "o" < "t"; two dates compare as their digits do
PieceKey(piece) ==
    IF piece.date # <<>> THEN <<2, Ordinal(piece.date)>>
    ELSE CASE piece.text = ".csv" -> <<1, 0>>
           [] piece.text = "_b" -> <<3, 0>>
           [] piece.text = "old_" -> <<4, 0>>
           [] OTHER -> <<5, 0>>

\* a < b as Python compares the two strings
RECURSIVE NameLess(_, _)
NameLess(a, b) ==
    IF b = <<>> THEN FALSE
    ELSE IF a = <<>> THEN TRUE
    ELSE IF PieceKey(Head(a)) = PieceKey(Head(b)) THEN NameLess(Tail(a), Tail(b))
    ELSE \/ PieceKey(Head(a))[1] < PieceKey(Head(b))[1]
         \/ /\ PieceKey(Head(a))[1] = PieceKey(Head(b))[1]
            /\ PieceKey(Head(a))[2] < PieceKey(Head(b))[2]

\* sorted(names)
RECURSIVE SortedNames(_)
SortedNames(S) ==
    IF S = {} THEN <<>>
    ELSE LET first == CHOOSE x \in S : \A y \in S \ {x} : NameLess(x, y)
         IN <<first>> \o SortedNames(S \ {first})

\* pat.search(name).group(1): the 8 digits of the first place where
\* "tempostar_stock_" is followed by 8 digits, <<>> when there is none
RECURSIVE TokenFrom(_, _)
TokenFrom(pieces, after_prefix) ==
    IF pieces = <<>> THEN <<>>
    ELSE IF after_prefix /\ Head(pieces).date # <<>> THEN Head(pieces).date
    ELSE TokenFrom(Tail(pieces), Head(pieces) = Prefix)

TokenOf(name) == TokenFrom(name, TRUE)

\* tempostar_stock_20250710.csv, tempostar_stock_20250831.csv,
\* tempostar_stock_20250831_b.csv, tempostar_stock_old_.csv and
\* tempostar_stock_old_tempostar_stock_20250710.csv
NameChoices ==
    {<<DatePiece(D1), Csv>>,
     <<DatePiece(D3), Csv>>,
     <<DatePiece(D3), TextPiece("_b"), Csv>>,
     <<TextPiece("old_"), Csv>>,
     <<TextPiece("old_"), Prefix, DatePiece(D1), Csv>>}

\* the orders of one product a file holds
OrderRows ==
    SeqsUpTo({[code |-> c, qty |-> -2, reason |-> SalesReason] : c \in {CodeA, CodeB}},
             MaxRows)

\* the files of these names in sorted order, file i with the rows rows[i]
NamedFiles(names, rows) ==
    [i \in 1..Len(names) |->
        [name |-> names[i]] @@ MkExtract(i, TokenOf(names[i]), FullCols, rows[i])]

InitOrder ==
    /\ \E S \in SUBSET NameChoices :
          /\ Cardinality(S) \in 1..MaxFiles
          /\ \E rows \in [1..Cardinality(S) -> OrderRows] :
                files = NamedFiles(SortedNames(S), rows)
    /\ masters = OneMaster
    /\ Fresh

SpecOrder == InitOrder /\ [][NextAgg]_vars

----------------------------------------------------------------------------
(* The properties, stated on the input files and the reports.  A cell      *)
(* <<i, k>> is row k of extract i.                                         *)

Cells == UNION {{<<i, k>> : k \in 1..Len(files[i].rows)} : i \in 1..Len(files)}

CellRow(c) == files[c[1]].rows[c[2]]

CellsOf(code) == {c \in Cells : CellRow(c).code = code}

\* the cell that arrives last: the last row of the last extract
LastCell(S) ==
    CHOOSE c \in S : \A d \in S : d[1] < c[1] \/ (d[1] = c[1] /\ d[2] <= c[2])

RECURSIVE SumDelta(_)
SumDelta(S) ==
    IF S = {} THEN 0
    ELSE LET c == CHOOSE x \in S : TRUE
         IN CellRow(c).qty + SumDelta(S \ {c})

RECURSIVE SumSold(_)
SumSold(t) == IF t = <<>> THEN 0 ELSE Head(t).sold + SumSold(Tail(t))

Rows(t) == {t[i] : i \in 1..Len(t)}

Dated(i) == files[i].tok # <<>> /\ ValidDate(files[i].tok)

\* the extracts whose date d satisfies start <= d <= end
InWindow(start, end) ==
    {i \in 1..Len(files) :
        /\ Dated(i)
        /\ Ordinal(start) <= Ordinal(files[i].tok)
        /\ Ordinal(files[i].tok) <= Ordinal(end)}

Mentions(c, keyword) ==
    \/ keyword = <<>>
    \/ ContainsNoCase(CellRow(c).code, keyword)
    \/ ContainsNoCase(CellRow(c).base, keyword)
    \/ ContainsNoCase(CellRow(c).name, keyword)

\* the records a report reads: inside the window, matching the keyword
ReadCells(W, keyword) == {c \in Cells : c[1] \in W /\ Mentions(c, keyword)}

HasReason(c) == "reason" \in files[c[1]].cols

\* the records the sales filter selects: update_reason is the sales value,
\* or every record when no extract of the window has the column
Selected(W, keyword) ==
    {c \in ReadCells(W, keyword) :
        IF \E i \in W : "reason" \in files[i].cols
        THEN HasReason(c) /\ CellRow(c).reason = SalesReason
        ELSE TRUE}

NetOf(code, W, keyword) == 0 - SumDelta(Selected(W, keyword) \cap CellsOf(code))

SkuWindow == InWindow(sku_filters.start_date, sku_filters.end_date)

RestockWindow ==
    InWindow(RestockStart(files, restock_filters.restock_months), MaxDate(files))

\* C1: for every product of a report, current_stock is the stock_after of the
\* product's last-arriving record over all extracts, whatever the window and
\* the keyword.
C1_StockOfLastRecordOverAllExtracts ==
    \A r \in Rows(view1.rows) \cup Rows(view2.rows) :
        r.stock = CellRow(LastCell(CellsOf(r.code))).stock

\* C2 as stated: the net_units_sold of the sales report's rows sum to the negated
\* sum of quantity_delta over all selected records inside the window, the
\* records of products of zero or negative net movement included.
C2_SumOverAllSelectedRecords ==
    (view1.status = "ok" /\ sku_filters.keyword = <<>> /\ sku_filters.min_total_sales = 0)
        => SumSold(view1.rows) = 0 - SumDelta(Selected(SkuWindow, <<>>))

\* a product the sales report keeps: net movement positive and at least the
\* minimum-sold threshold
Kept(code) ==
    /\ NetOf(code, SkuWindow, sku_filters.keyword) > 0
    /\ NetOf(code, SkuWindow, sku_filters.keyword) >= sku_filters.min_total_sales

\* C2: the net_units_sold of the sales report's rows sum to the negated sum of
\* quantity_delta over the selected records, inside the window and matching
\* the keyword, of the products whose net movement is positive and at least
\* the threshold.
C2_SumOverKeptProducts ==
    view1.status = "ok"
        => SumSold(view1.rows) =
             0 - SumDelta({c \in Selected(SkuWindow, sku_filters.keyword) :
                              Kept(CellRow(c).code)})

\* a report with rows was computed while a product with selected records has
\* a net movement of zero or less
C2_Witness ==
    /\ view1.status = "ok"
    /\ view1.rows # <<>>
    /\ \E c \in Selected(SkuWindow, sku_filters.keyword) :
          NetOf(CellRow(c).code, SkuWindow, sku_filters.keyword) <= 0

\* C3 as stated: every row's net_units_sold is the negated sum of quantity_delta
\* over the product's records inside the window whose update_reason is the
\* sales value.
C3_OnlyRecordsWithSalesReason ==
    (view1.status = "ok" /\ sku_filters.keyword = <<>>)
        => \A r \in Rows(view1.rows) :
              r.sold = 0 - SumDelta({c \in CellsOf(r.code) :
                                        /\ c[1] \in SkuWindow
                                        /\ HasReason(c)
                                        /\ CellRow(c).reason = SalesReason})

\* C3: every row's net_units_sold is the negated sum of quantity_delta over the
\* product's records that are inside the window (bounds inclusive), match the
\* keyword and have the sales reason, or any reason when no extract of the
\* window has the update_reason column; its current_stock is the stock_after
\* of the product's last such record of any reason.
C3_NetOfSelectedRecords ==
    view1.status = "ok"
        => \A r \in Rows(view1.rows) :
              /\ r.sold = NetOf(r.code, SkuWindow, sku_filters.keyword)
              /\ r.stock =
                   CellRow(LastCell(ReadCells(SkuWindow, sku_filters.keyword)
                                        \cap CellsOf(r.code))).stock

\* a report row of a product whose last record read is a restock, read from an
\* extract dated on the window's start
C3_Witness ==
    /\ view1.status = "ok"
    /\ \E r \in Rows(view1.rows) :
          LET read == ReadCells(SkuWindow, sku_filters.keyword) \cap CellsOf(r.code)
          IN /\ HasReason(LastCell(read))
             /\ CellRow(LastCell(read)).reason = OtherReason
             /\ r.stock = CellRow(LastCell(read)).stock
             /\ files[LastCell(read)[1]].tok = sku_filters.start_date

\* C4: no row of the sales report or of the reorder report has
\* net_units_sold <= 0.
C4_NoRowWithoutSales ==
    \A r \in Rows(view1.rows) \cup Rows(view2.rows) : r.sold > 0

\* a report with rows was computed, at threshold 0, while another product
\* with selected records has a net movement of zero or less
C4_Witness ==
    /\ view1.status = "ok"
    /\ view1.rows # <<>>
    /\ sku_filters.min_total_sales = 0
    /\ \E c \in Selected(SkuWindow, sku_filters.keyword) :
          NetOf(CellRow(c).code, SkuWindow, sku_filters.keyword) = 0

\* the records that are sales-qualifying when each extract without the
\* update_reason column counts in full
QualifyingPerExtract(W) ==
    {c \in ReadCells(W, <<>>) : ~HasReason(c) \/ CellRow(c).reason = SalesReason}

\* C5: every row of an extract that lacks the update_reason column counts as a
\* sale, also when the extract is loaded with extracts that have the column:
\* the report holds each product at the net movement of those records.
C5_ExtractWithoutReasonCountsInFull ==
    (view1.status = "ok" /\ sku_filters.keyword = <<>> /\ sku_filters.min_total_sales = 0)
        => \A code \in {CellRow(c).code : c \in Cells} :
              LET net == 0 - SumDelta(QualifyingPerExtract(SkuWindow) \cap CellsOf(code))
              IN net > 0 => \E r \in Rows(view1.rows) : r.code = code /\ r.sold = net

\* the 発注推奨数 the reorder report shows for a product: 0 when it has no row
QtyShown(code) ==
    IF \E r \in Rows(view2.rows) : r.code = code
    THEN (CHOOSE r \in Rows(view2.rows) : r.code = code).qty
    ELSE 0

\* target_stock - current_stock of an aggregated row, times window_days
ShortfallTimesDays(p) ==
    p.sold * restock_filters.target_days - p.stock * period_days

Ceiling(num, den) == 0 - ((0 - num) \div den)

\* C6 as stated: recommended_order_qty = max(ceil(target_stock - current_stock), 0).
C6_CeilingOfShortfall ==
    view2.status = "ok"
        => \A p \in Rows(sales_recent) :
              QtyShown(p.code) =
                  IF Ceiling(ShortfallTimesDays(p), period_days) > 0
                  THEN Ceiling(ShortfallTimesDays(p), period_days) ELSE 0

\* C6: recommended_order_qty is 0 when target_stock - current_stock <= 0 and
\* otherwise an integer nearest to it (at most 1/2 away), so a shortfall below
\* 1/2 yields 0; window_days=10, net_units_sold=20, target_days=30,
\* current_stock=10 yields 50.
C6_NearestToShortfall ==
    view2.status = "ok"
        => \A p \in Rows(sales_recent) :
              LET num == ShortfallTimesDays(p)
                  q == QtyShown(p.code)
                  away == IF q * period_days >= num THEN q * period_days - num
                          ELSE num - q * period_days
              IN /\ num <= 0 => q = 0
                 /\ num > 0 => 2 * away <= period_days
                 /\ (num > 0 /\ 2 * num < period_days) => q = 0
                 /\ (p.sold = 20 /\ p.stock = 10 /\ period_days = 10
                        /\ restock_filters.target_days = 30) => q = 50

\* the report was computed while a product is short by 0.4, and leaves it out
C6_Witness ==
    /\ view2.status = "ok"
    /\ \E p \in Rows(sales_recent) :
          /\ 5 * ShortfallTimesDays(p) = 2 * period_days
          /\ QtyShown(p.code) = 0

\* C7: on the same aggregation, computing the recommendation for a larger
\* target_days lowers no product's quantity and removes no product from the
\* reorder report.
C7_MonotoneInTargetDays ==
    [][(/\ view2.status = "ok"
        /\ sales_recent' = sales_recent
        /\ period_days' = period_days
        /\ restock_filters'.target_days > restock_filters.target_days)
          => /\ \A p \in Rows(sales_recent) : QtyShown(p.code)' >= QtyShown(p.code)
             /\ {r.code : r \in Rows(view2.rows)} \subseteq {r.code : r \in Rows(view2'.rows)}]_vars

\* a report computed for a target_days above the smallest, which orders one
\* product and leaves another out
C7_Witness ==
    /\ view2.status = "ok"
    /\ restock_filters.target_days > 1
    /\ sales_recent # <<>>
    /\ view2.rows # <<>>
    /\ Len(view2.rows) < Len(sales_recent)

\* the products tab 2 aggregates: net movement positive and at least the
\* threshold, current stock at most max_current_stock
Aggregated(code) ==
    LET read == ReadCells(RestockWindow, restock_filters.keyword) \cap CellsOf(code)
        net == NetOf(code, RestockWindow, restock_filters.keyword)
    IN /\ read # {}
       /\ net > 0
       /\ net >= restock_filters.min_total_sales
       /\ CellRow(LastCell(read)).stock <= restock_filters.max_current_stock

\* C8: the reorder report holds exactly the aggregated products (after the
\* minimum-sold and maximum-current-stock filters) whose recommended_order_qty
\* is > 0, each once, in non-increasing order of recommended_order_qty.
C8_ReorderReportRows ==
    view2.status = "ok"
        => /\ {p.code : p \in Rows(sales_recent)}
                = {c \in {CellRow(x).code : x \in Cells} : Aggregated(c)}
           /\ \A r \in Rows(view2.rows) :
                 /\ r.qty > 0
                 /\ \E p \in Rows(sales_recent) : p.code = r.code
           /\ \A p \in Rows(sales_recent) :
                 (~\E r \in Rows(view2.rows) : r.code = p.code)
                     => 2 * ShortfallTimesDays(p) <= period_days
           /\ \A i \in 1..Len(view2.rows), j \in 1..Len(view2.rows) :
                 i < j => /\ view2.rows[i].qty >= view2.rows[j].qty
                          /\ view2.rows[i].code # view2.rows[j].code

\* a reorder report computed from two aggregated products that orders one of
\* them and leaves the other out
C8_Witness ==
    /\ view2.status = "ok"
    /\ Len(sales_recent) = 2
    /\ Len(view2.rows) = 1

\* the occurrences <<table, row>> of a key in the tables that have both columns
Occurrences(key) ==
    UNION {{<<i, j>> : j \in {n \in 1..Len(masters[i].rows) :
                                 Strip(masters[i].rows[n].key) = key}} :
              i \in {m \in 1..Len(masters) : MasterCols \subseteq masters[m].cols}}

MasterKeys ==
    UNION {{Strip(masters[i].rows[j].key) : j \in 1..Len(masters[i].rows)} :
              i \in {m \in 1..Len(masters) : MasterCols \subseteq masters[m].cols}}

\* C9: the image lookup maps each trimmed key to the trimmed path of the key's
\* last occurrence, in table order then row order; it is empty when no table
\* has both columns; a product whose base code is not in it has no image.
C9_LastOccurrenceWins ==
    img_master # <<>>
        => /\ DOMAIN img_master[1] = MasterKeys
           /\ \A k \in MasterKeys :
                 LET o == LastCell(Occurrences(k))
                 IN img_master[1][k] = Strip(masters[o[1]].rows[o[2]].path)
           /\ \A r \in Rows(view1.rows) \cup Rows(view2.rows) \cup Rows(sales_recent) :
                 Strip(r.base) \notin MasterKeys => r.img = <<>>

\* a sales report built with a lookup in which a key occurs twice with
\* different paths, one row with that key's image and one row without image
C9_Witness ==
    /\ img_master # <<>>
    /\ view1.status = "ok"
    /\ \E k \in MasterKeys :
          \E o1 \in Occurrences(k), o2 \in Occurrences(k) :
             /\ o1[1] < o2[1]
             /\ Strip(masters[o1[1]].rows[o1[2]].path) # Strip(masters[o2[1]].rows[o2[2]].path)
             /\ \E r \in Rows(view1.rows) :
                   /\ Strip(r.base) = k
                   /\ r.img = ImgTag(Strip(masters[o2[1]].rows[o2[2]].path))
    /\ \E r \in Rows(view1.rows) : Strip(r.base) \notin MasterKeys /\ r.img = <<>>

\* C10: an extract whose filename yields no period (no 8-digit token, or one
\* that is no calendar date) causes no failure, and its rows are loaded for
\* the current-stock lookup of every report.
C10_UndatedExtractStillLoaded ==
    \A i \in 1..Len(files) :
        ~Dated(i) => /\ status # "ValueError"
                     /\ view1.status = "ok" => i \in view1.loaded
                     /\ view2.status = "ok" => i \in view2.loaded

\* the columns of the frame a report loaded
LoadedCols(view) == UNION {files[i].cols : i \in view.loaded}

\* C11: a report computed on extracts that all lack a required column (product
\* code, base product code, quantity delta) ends in the schema-error outcome
\* with no rows, and one computed on extracts that have the required columns
\* ends neither in an error outcome nor in an unhandled exception, whatever
\* optional columns are missing.
C11_SchemaErrorOnlyForRequiredColumns ==
    \A view \in {view1, view2} :
        view.loaded # {}
            => IF {"code", "base", "qty"} \subseteq LoadedCols(view)
               THEN view.status \notin {"schema_error", "KeyError"}
               ELSE view.status = "schema_error" /\ view.rows = <<>>

\* whether these reports, computed for these stored filters, are the ones the
\* current contents of the files give: the rows of both aggregations and the
\* image lookup
ReportsOfCurrentFiles(v1, v2, table, img, sf, rf) ==
    /\ v1.status = "ok"
          => \A code \in {CodeOrder[i] : i \in 1..Len(CodeOrder)} :
                LET net == NetOf(code, InWindow(sf.start_date, sf.end_date), sf.keyword)
                IN IF net > 0 /\ net >= sf.min_total_sales
                   THEN \E r \in Rows(v1.rows) : r.code = code /\ r.sold = net
                   ELSE \A r \in Rows(v1.rows) : r.code # code
    /\ v2.status = "ok"
          => \A code \in {CodeOrder[i] : i \in 1..Len(CodeOrder)} :
                LET W == InWindow(RestockStart(files, rf.restock_months), MaxDate(files))
                    read == ReadCells(W, rf.keyword) \cap CellsOf(code)
                    net == NetOf(code, W, rf.keyword)
                IN IF /\ read # {}
                      /\ net > 0
                      /\ net >= rf.min_total_sales
                      /\ CellRow(LastCell(read)).stock <= rf.max_current_stock
                   THEN \E r \in Rows(table) : r.code = code /\ r.sold = net
                   ELSE \A r \in Rows(table) : r.code # code
    /\ (v1.status = "ok" \/ v2.status = "ok")
          => /\ DOMAIN img[1] = MasterKeys
             /\ \A k \in MasterKeys :
                   LET o == LastCell(Occurrences(k))
                   IN img[1][k] = Strip(masters[o[1]].rows[o[2]].path)

\* C12: whatever changes the files went through between the runs, what the
\* loaders return in a run is computed from the files' current contents: the
\* reports of every run are those the current extracts and image-master
\* tables give.
C12_LoadsReturnCurrentContents ==
    [][(files' = files /\ masters' = masters)
          => ReportsOfCurrentFiles(view1', view2', sales_recent', img_master',
                                   sku_filters', restock_filters')]_vars

\* the row the sales report holds for a product when no keyword is given:
\* the net movement over the window, the stock of the window's last record,
\* the name of the last record counted
UnfilteredNet(code) == NetOf(code, SkuWindow, <<>>)

UnfilteredStock(code) ==
    CellRow(LastCell(ReadCells(SkuWindow, <<>>) \cap CellsOf(code))).stock

UnfilteredName(code) ==
    CellRow(LastCell(Selected(SkuWindow, <<>>) \cap CellsOf(code))).name

\* whether the unfiltered report has a row for the product, and whether that
\* row's product code, base code or name contains the keyword
InUnfilteredReport(code) ==
    UnfilteredNet(code) > 0 /\ UnfilteredNet(code) >= sku_filters.min_total_sales

RowMentions(code, keyword) ==
    \/ keyword = <<>>
    \/ ContainsNoCase(code, keyword)
    \/ ContainsNoCase(BaseOf(code), keyword)
    \/ ContainsNoCase(UnfilteredName(code), keyword)

\* C13: the sales report for a keyword holds exactly the rows of the report
\* without keyword (same window and threshold) whose product code, base code
\* or name contains the keyword, each with the net_units_sold and
\* current_stock it has in that report.
C13_KeywordSelectsAggregatedRows ==
    view1.status = "ok"
        => /\ {r.code : r \in Rows(view1.rows)}
                = {code \in {CodeOrder[i] : i \in 1..Len(CodeOrder)} :
                      InUnfilteredReport(code) /\ RowMentions(code, sku_filters.keyword)}
           /\ \A r \in Rows(view1.rows) :
                 InUnfilteredReport(r.code)
                     => /\ r.sold = UnfilteredNet(r.code)
                        /\ r.stock = UnfilteredStock(r.code)


\* the date in the name of the extract a record is in
CellDate(c) == Ordinal(files[c[1]].tok)

\* the extracts of a load follow one another in non-decreasing date order
DateOrdered(loaded) ==
    \A i \in loaded : \A j \in loaded :
        i < j => Ordinal(files[i].tok) <= Ordinal(files[j].tok)

\* the last record of the latest-dated extract (of two extracts of one date,
\* the later in path order)
LatestDatedCell(S) ==
    CHOOSE c \in S : \A d \in S :
        \/ CellDate(d) < CellDate(c)
        \/ /\ CellDate(d) = CellDate(c)
           /\ d[1] < c[1] \/ (d[1] = c[1] /\ d[2] <= c[2])

\* C14: the extracts of a report are concatenated in non-decreasing order of
\* filename date, and every row's current_stock is the stock_after of the
\* product's last record in the latest-dated loaded extract that has a record
\* of the product which the report reads: no record of an earlier-dated extract
\* overrides one of a later-dated extract.
C14_LatestDatedExtractWins ==
    /\ view1.status = "ok" =>
          /\ DateOrdered(view1.loaded)
          /\ \A r \in Rows(view1.rows) :
                r.stock = CellRow(LatestDatedCell(
                              ReadCells(SkuWindow, sku_filters.keyword)
                                  \cap CellsOf(r.code))).stock
    /\ view2.status = "ok" =>
          /\ DateOrdered(view2.loaded)
          /\ \A r \in Rows(view2.rows) :
                r.stock = CellRow(LatestDatedCell(
                              ReadCells(RestockWindow, restock_filters.keyword)
                                  \cap CellsOf(r.code))).stock


\* the dates of the extracts on disk, their earliest and their latest
DatesOnDisk == {files[i].tok : i \in {j \in 1..Len(files) : Dated(j)}}

EarliestOnDisk == CHOOSE d \in DatesOnDisk : \A e \in DatesOnDisk : Ordinal(d) <= Ordinal(e)

LatestOnDisk == CHOOSE d \in DatesOnDisk : \A e \in DatesOnDisk : Ordinal(e) <= Ordinal(d)

\* max(max_date - restock_months months, min_date)
ReorderFrom ==
    IF Ordinal(MinusMonths(LatestOnDisk, restock_filters.restock_months))
          >= Ordinal(EarliestOnDisk)
    THEN MinusMonths(LatestOnDisk, restock_filters.restock_months)
    ELSE EarliestOnDisk

\* the stored sales window lies inside the dates on disk, start before end
SalesWindowInRange ==
    /\ Ordinal(EarliestOnDisk) <= Ordinal(sku_filters.start_date)
    /\ Ordinal(sku_filters.start_date) <= Ordinal(sku_filters.end_date)
    /\ Ordinal(sku_filters.end_date) <= Ordinal(LatestOnDisk)

\* the reorder report read the extracts of [ReorderFrom, max_date], and the
\* window length it computed with is the days of that window, at least 1
ReorderWindowAsStated ==
    /\ restock_applied => view2.loaded = InWindow(ReorderFrom, LatestOnDisk)
    /\ view2.status = "ok" =>
          /\ period_days = Ordinal(LatestOnDisk) - Ordinal(ReorderFrom) + 1
          /\ period_days >= 1

\* a tab shows a report exactly when its form was submitted
ReportOnlyOnceApplied ==
    /\ sku_applied <=> view1.status # "info"
    /\ restock_applied <=> view2.status # "info"

\* an applied flag stays true, and a step that changes one tab's stored
\* filters or flag leaves the other tab's unchanged
FlagsKeptAndTabsApart ==
    /\ sku_applied => sku_applied'
    /\ restock_applied => restock_applied'
    /\ (sku_filters' # sku_filters \/ sku_applied' # sku_applied)
          => (restock_filters' = restock_filters /\ restock_applied' = restock_applied)
    /\ (restock_filters' # restock_filters \/ restock_applied' # restock_applied)
          => (sku_filters' = sku_filters /\ sku_applied' = sku_applied)

\* C15: after any sequence of submissions of the two forms, the stored sales
\* window satisfies min_date <= start_date <= end_date <= max_date, the reorder
\* window is [max(max_date - restock_months months, min_date), max_date] with
\* window_days >= 1, a tab's report is computed only once its form was
\* submitted, an applied flag never returns to false, and a submission of one
\* tab's form leaves the other tab's stored filters and flag unchanged.
C15_WindowsAndFlagsKept ==
    /\ [](status = "ok" =>
            SalesWindowInRange /\ ReorderWindowAsStated /\ ReportOnlyOnceApplied)
    /\ [][FlagsKeptAndTabsApart]_vars

\* both forms were submitted, the sales form with a window other than the
\* default one, and the reorder window starts at min_date because max_date
\* minus the months lies before it
C15_Witness ==
    /\ status = "ok"
    /\ sku_applied /\ restock_applied
    /\ view1.status = "ok" /\ view2.status = "ok"
    /\ sku_filters.start_date # DefaultStart(files)
    /\ sku_filters.end_date # LatestOnDisk
    /\ ReorderFrom = EarliestOnDisk
    /\ ReorderFrom # MinusMonths(LatestOnDisk, restock_filters.restock_months)

====
